---- MODULE Spec2Model ----
(***************************************************************************)
(* multi-clone.py: list the sub-folders of a D2L download, parse each      *)
(* folder name into a student record, keep one record per student, look    *)
(* for a GitHub link in the folder's *.html files, run `git clone` for     *)
(* every record that has one, and print a one-line summary per record.     *)
(*                                                                         *)
(* Text is modelled as sequences of tokens.  A token is one character,     *)
(* except for the pieces of a URL that the program never looks inside      *)
(* ("https:", "github.com") and the server alias.                          *)
(***************************************************************************)
EXTENDS Integers, Sequences, FiniteSets, TLC

VARIABLES
    pc,           \* where main() is: start, scan, locate, clone, summary, done, exited, aborted
    listed,       \* the folders list_folders() has handed to the loop of main, in order
    keys,         \* the keys of the dict `students`, in insertion order
    students,     \* the dict `students`: key -> student record
    si,           \* index into keys of the record the current loop is at
    inFile,       \* get_student_url is inside an open *.html file
    nfiles,       \* *.html files glob has yielded for the current record
    nlines,       \* lines read from the open file
    hist,         \* per key, what the Repository Locator read: any line at all, the first matched URL
    atClone,      \* the dict as it was when clone_repos was entered
    invocations,  \* every subprocess.run call: key, cwd, command, outcome
    summary,      \* the lines main printed after clone_repos
    abortedBy,    \* the uncaught exception that ended the run, or "none"
    pin,          \* input of the function under test (SpecUrl, SpecTime)
    pout          \* its result

mainVars == <<pc, listed, keys, students, si, inFile, nfiles, nlines, hist,
              atClone, invocations, summary, abortedBy>>
pureVars == <<pin, pout>>
vars == <<pc, listed, keys, students, si, inFile, nfiles, nlines, hist,
          atClone, invocations, summary, abortedBy, pin, pout>>

\* ---------------------------------------------------------------- bounds
MaxFolders == 2
MaxFiles == 2
MaxLines == 2
MaxChunks == 3

\* ------------------------------------------------------------- text helpers
RECURSIVE Flatten(_)
Flatten(ss) == IF ss = <<>> THEN <<>> ELSE Head(ss) \o Flatten(Tail(ss))

RECURSIVE SeqsUpTo(_, _)
SeqsUpTo(S, n) ==
    IF n = 0 THEN {<<>>}
    ELSE LET shorter == SeqsUpTo(S, n - 1)
         IN  shorter \cup {Append(s, x) : s \in shorter, x \in S}

\* str.lower() on the letters the model uses
LowerChar(c) ==
    CASE c = "J" -> "j"
      [] c = "A" -> "a"
      [] c = "N" -> "n"
      [] c = "D" -> "d"
      [] c = "O" -> "o"
      [] c = "E" -> "e"
      [] c = "L" -> "l"
      [] c = "B" -> "b"
      [] OTHER -> c

Lower(s) == [i \in 1..Len(s) |-> LowerChar(s[i])]

\* int() of a string of decimal digits
RECURSIVE IntOf(_)
IntOf(ds) ==
    IF ds = <<>> THEN 0
    ELSE 10 * IntOf(SubSeq(ds, 1, Len(ds) - 1)) + ds[Len(ds)]

\* ------------------------------------------------- Submission Parser
\* A folder's base name, already cut at the places the pattern cuts it:
\*   <ids> - <first> <last> - <mon> <day>, <year> <time> <mer>
\* shape "d2l" is a name with that punctuation, "other" any other name.
FolderName(ids, first, last, mon, day, year, time, mer) ==
    [shape |-> "d2l", ids |-> ids, first |-> first, last |-> last, mon |-> mon,
     day |-> day, year |-> year, time |-> time, mer |-> mer]

OtherName(text) ==
    [shape |-> "other", ids |-> text, first |-> <<>>, last |-> <<>>, mon |-> "",
     day |-> 0, year |-> 0, time |-> <<>>, mer |-> ""]

\* the pattern's \d{3,4} and \d{4}
MinTimeDigits == 3
MaxTimeDigits == 4
YearDigits == 4

\* re.search(pattern, folder_name) finds a match
RegexMatches(name) ==
    /\ name.shape = "d2l"
    /\ Len(name.first) >= 1
    /\ Len(name.last) >= 1
    /\ Len(name.time) \in MinTimeDigits..MaxTimeDigits
    /\ name.year >= 0 /\ name.year < 10 ^ YearDigits
    /\ name.mer \in {"AM", "PM"}

MonthAbbr == <<"Jan", "Feb", "Mar", "Apr", "May", "Jun",
               "Jul", "Aug", "Sep", "Oct", "Nov", "Dec">>

IsMonth(m) == \E i \in 1..Len(MonthAbbr) : MonthAbbr[i] = m
MonthOf(m) == CHOOSE i \in 1..Len(MonthAbbr) : MonthAbbr[i] = m

IsLeap(y) == (y % 4 = 0 /\ y % 100 # 0) \/ y % 400 = 0

DaysIn(month, year) ==
    IF month = 2 THEN (IF IsLeap(year) THEN 29 ELSE 28)
    ELSE IF month \in {4, 6, 9, 11} THEN 30 ELSE 31

\* hh = int(grps[5])//100
TimeHH(time) == IntOf(time) \div 100
\* mm = int(grps[5])%100
TimeMM(time) == IntOf(time) % 100

\* a variant that forgets that 12 is the first hour of its half of the day
Hour24NoTwelve(hh, mer) == IF mer = "PM" THEN hh + 12 ELSE hh

\* strptime's %I with %p: the hour of a 12-hour clock to the hour of the day
Hour24(hh, mer) ==
    IF mer = "PM" THEN (IF hh = 12 THEN 12 ELSE hh + 12)
    ELSE (IF hh = 12 THEN 0 ELSE hh)

\* strptime(..., '%b %d %Y %I %M %p') accepts the fields (else it raises ValueError)
StrptimeAccepts(mon, day, year, hh, mm, mer) ==
    /\ IsMonth(mon)
    /\ year >= 1
    /\ hh \in 1..12
    /\ mm \in 0..59
    /\ mer \in {"AM", "PM"}
    /\ day >= 1
    /\ day <= DaysIn(MonthOf(mon), year)

\* get_datetime raises ValueError on the groups of this name
DatetimeRaises(name) ==
    ~StrptimeAccepts(name.mon, name.day, name.year,
                     TimeHH(name.time), TimeMM(name.time), name.mer)

\* get_datetime(grps), when it returns
get_datetime(name) ==
    [year |-> name.year, month |-> MonthOf(name.mon), day |-> name.day,
     hour |-> Hour24(TimeHH(name.time), name.mer), minute |-> TimeMM(name.time)]

\* datetime's `>`
DtGreater(a, b) ==
    \/ a.year > b.year
    \/ a.year = b.year /\ a.month > b.month
    \/ a.year = b.year /\ a.month = b.month /\ a.day > b.day
    \/ a.year = b.year /\ a.month = b.month /\ a.day = b.day /\ a.hour > b.hour
    \/ /\ a.year = b.year /\ a.month = b.month /\ a.day = b.day
       /\ a.hour = b.hour /\ a.minute > b.minute

\* the dict extract_student_info returns; `has` is the set of the optional keys
\* (userid, repo, ssh_url) the dict holds
extract_student_info(name) ==
    [folder |-> name, datetime |-> get_datetime(name),
     first |-> name.first, last |-> name.last, status |-> "folder",
     has |-> {}, userid |-> <<>>, repo |-> <<>>, ssh_url |-> <<>>]

\* student['first'].lower() + student['last'].lower()
StudentKey(student) == Lower(student.first) \o Lower(student.last)

\* the base names a download folder may hold
FolderNames ==
    { FolderName("101768-164537", <<"J", "a", "n">>, <<"D", "o", "e">>, "Jan", 25, 2025, <<2, 0, 4>>, "PM"),
      FolderName("101768-164101", <<"J", "a", "n">>, <<"D", "o", "e">>, "Jan", 25, 2025, <<1, 1, 3, 0>>, "AM"),
      FolderName("101768-164999", <<"j", "a", "n">>, <<"d", "o", "e">>, "Jan", 26, 2025, <<1, 2, 0, 4>>, "AM"),
      FolderName("101770-164600", <<"A", "l">>, <<".">>, "Feb", 28, 2025, <<1, 2, 5, 9>>, "PM"),
      FolderName("101771-164700", <<"A", "l">>, <<"B">>, "Jan", 25, 2025, <<1, 3, 0, 4>>, "PM"),
      FolderName("101772-164700", <<"A", "l">>, <<"B">>, "Jan", 25, 2025, <<0, 3, 0>>, "AM"),
      FolderName("101773-164700", <<"A", "l">>, <<"B">>, "Jan", 25, 2025, <<2, 6, 0>>, "AM"),
      FolderName("101774-164700", <<"A", "l">>, <<"B">>, "Foo", 25, 2025, <<2, 0, 0>>, "AM"),
      FolderName("101775-164700", <<"A", "l">>, <<"B">>, "Feb", 30, 2025, <<2, 0, 0>>, "AM"),
      FolderName("101776-164700", <<"A", "l">>, <<"B">>, "Jan", 25, 2025, <<4, 5>>, "PM"),
      OtherName("__pycache__") }


\* ------------------------------------------------- Repository Locator
server_name == <<"git@github-fleming">>

DotGit == <<".", "g", "i", "t">>
UrlHead(host) == <<"https:", "/", "/", host, "/">>

\* A line of an *.html file: plain text, or a link in one of the two forms the
\* pattern knows, href="<url>" and <p><url></p>.
TextLine == [tag |-> "text", url |-> <<>>]
HrefLine(url) == [tag |-> "href", url |-> url]
ParaLine(url) == [tag |-> "p", url |-> url]

\* the pattern's  .+/.+  after the site prefix
HasOwnerAndRepo(rest) == \E i \in 2..(Len(rest) - 1) : rest[i] = "/"

HasHead(url, hosts) ==
    /\ Len(url) >= 5
    /\ \E h \in hosts : SubSeq(url, 1, 5) = UrlHead(h)

\* re.search(PATTERN, line): the first alternative escapes the dot of
\* github\.com, the second does not, so there any character stands for the dot
PatternMatches(line) ==
    \/ /\ line.tag = "href"
       /\ HasHead(line.url, {"github.com"})
       /\ HasOwnerAndRepo(SubSeq(line.url, 6, Len(line.url)))
    \/ /\ line.tag = "p"
       /\ HasHead(line.url, {"github.com", "githubXcom"})
       /\ HasOwnerAndRepo(SubSeq(line.url, 6, Len(line.url)))

\* 0 == str(grp).find("https://github.com") holds for a group of the match
GroupIsGithub(line) == SubSeq(line.url, 1, 4) = SubSeq(UrlHead("github.com"), 1, 4)

\* url.split('/')
RECURSIVE SplitFrom(_, _, _)
SplitFrom(s, i, cur) ==
    IF i > Len(s) THEN <<cur>>
    ELSE IF s[i] = "/" THEN <<cur>> \o SplitFrom(s, i + 1, <<>>)
    ELSE SplitFrom(s, i + 1, Append(cur, s[i]))

Split(s) == SplitFrom(s, 1, <<>>)

\* re.search(r"\.git$", repo)
EndsWithGit(repo) ==
    /\ Len(repo) >= Len(DotGit)
    /\ SubSeq(repo, Len(repo) - Len(DotGit) + 1, Len(repo)) = DotGit

\* a variant with `if` in the place of `while`: one suffix is removed
StripGitOnce(repo) ==
    IF EndsWithGit(repo) THEN SubSeq(repo, 1, Len(repo) - Len(DotGit)) ELSE repo

\* the while loop that removes ".git" from the end of the name
RECURSIVE StripGit(_)
StripGit(repo) ==
    IF EndsWithGit(repo) THEN StripGit(SubSeq(repo, 1, Len(repo) - Len(DotGit)))
    ELSE repo

\* components[3] and components[4] (Python counts from 0)
OwnerOf(url) == Split(url)[4]
RepoOf(url) == StripGit(Split(url)[5])

\* f"{server_name}:{components[3]}/{repo}.git"
SshUrl(owner, repo) == server_name \o <<":">> \o owner \o <<"/">> \o repo \o DotGit

\* What get_student_url does with one line of the file:
\*   "github"  the line matched, the record is filled in and the function returns
\*   "no_url"  the line did not match
\*   "UnboundLocalError"  the line matched but no group starts with the site
\*                        prefix, and `url` is read before it was ever assigned
LineOutcome(line) ==
    IF ~PatternMatches(line) THEN "no_url"
    ELSE IF GroupIsGithub(line) THEN "github"
    ELSE "UnboundLocalError"

AfterMatch(student, url) ==
    [student EXCEPT !.userid = OwnerOf(url),
                    !.repo = RepoOf(url),
                    !.ssh_url = SshUrl(OwnerOf(url), RepoOf(url)),
                    !.status = "github",
                    !.has = {"userid", "repo", "ssh_url"}]

AfterNoMatch(student) ==
    [student EXCEPT !.ssh_url = <<>>,
                    !.status = "no_url",
                    !.has = @ \cup {"ssh_url"}]

\* the lines a submission's *.html file may hold
UrlA == UrlHead("github.com") \o <<"a", "l", "/", "p">> \o DotGit \o DotGit
UrlB == UrlHead("github.com") \o <<"b", "o", "/", "q", "/", "t", "r", "e", "e">>
HtmlLines ==
    { TextLine,
      HrefLine(UrlA),
      ParaLine(UrlB),
      HrefLine(UrlHead("github.com") \o <<"a", "l">>),
      ParaLine(UrlHead("githubXcom") \o <<"a", "l", "/", "p">>) }


\* ------------------------------------------------------------ the run
\* nothing read yet; `first` is <<>> until a line matches
NoHist == [read |-> FALSE, first |-> <<>>]

MainInit ==
    /\ pc = "start"
    /\ listed = <<>>
    /\ keys = <<>>
    /\ students = <<>>
    /\ si = 1
    /\ inFile = FALSE
    /\ nfiles = 0
    /\ nlines = 0
    /\ hist = <<>>
    /\ atClone = <<>>
    /\ invocations = <<>>
    /\ summary = <<>>
    /\ abortedBy = "none"

Init ==
    /\ MainInit
    /\ pin = "none"
    /\ pout = "none"

IsListed(f) == \E i \in 1..Len(listed) : listed[i] = f

\* d[k] = v on a dict
Put(d, k, v) == [x \in DOMAIN d \cup {k} |-> IF x = k THEN v ELSE d[x]]

Without(ks, k) == SelectSeq(ks, LAMBDA x : x # k)

\* main, `if student_key in students: ... del students[student_key]`: the key
\* order of the dict after the body of the loop.  A deleted key is inserted
\* again at the end.
KeysAfter(d, ks, student) ==
    LET k == StudentKey(student)
    IN  IF k \in DOMAIN d
        THEN IF DtGreater(student.datetime, d[k].datetime)
             THEN Append(Without(ks, k), k)
             ELSE ks
        ELSE Append(ks, k)

\* main, `students[student_key] = student`: runs whatever the comparison said
StudentsAfter(d, student) == Put(d, StudentKey(student), student)

\* get_folder resolved the root folder
ResolveRoot ==
    /\ pc = "start"
    /\ pc' = "scan"
    /\ UNCHANGED <<listed, keys, students, si, inFile, nfiles, nlines, hist,
                   atClone, invocations, summary, abortedBy, pin, pout>>

\* get_folder raised OSError: main prints a diagnostic and calls exit(0)
ResolveFails ==
    /\ pc = "start"
    /\ pc' = "exited"
    /\ UNCHANGED <<listed, keys, students, si, inFile, nfiles, nlines, hist,
                   atClone, invocations, summary, abortedBy, pin, pout>>

\* one turn of `for f in folders` in main
ScanFolder(f) ==
    /\ pc = "scan"
    /\ Len(listed) < MaxFolders
    /\ ~IsListed(f)
    /\ listed' = Append(listed, f)
    /\ IF ~RegexMatches(f)
       THEN UNCHANGED <<pc, keys, students, hist, abortedBy>>
       ELSE IF DatetimeRaises(f)
       THEN /\ pc' = "aborted"
            /\ abortedBy' = "ValueError"
            /\ UNCHANGED <<keys, students, hist>>
       ELSE LET student == extract_student_info(f)
            IN  /\ keys' = KeysAfter(students, keys, student)
                /\ students' = StudentsAfter(students, student)
                /\ hist' = Put(hist, StudentKey(student), NoHist)
                /\ UNCHANGED <<pc, abortedBy>>
    /\ UNCHANGED <<si, inFile, nfiles, nlines, atClone, invocations, summary, pin, pout>>

\* get_github_info, `if not student['status'] == "folder": continue`
RECURSIVE NextPending(_, _, _)
NextPending(d, ks, i) ==
    IF i > Len(ks) \/ d[ks[i]].status = "folder" THEN i
    ELSE NextPending(d, ks, i + 1)

\* the loop of main is over; get_github_info starts
ScanEnds ==
    /\ pc = "scan"
    /\ pc' = "locate"
    /\ si' = NextPending(students, keys, 1)
    /\ UNCHANGED <<listed, keys, students, inFile, nfiles, nlines, hist,
                   atClone, invocations, summary, abortedBy, pin, pout>>

\* folder.glob('*.html') yields one more file and get_student_url opens it
GlobYields ==
    /\ pc = "locate"
    /\ si <= Len(keys)
    /\ ~inFile
    /\ nfiles < MaxFiles
    /\ inFile' = TRUE
    /\ nfiles' = nfiles + 1
    /\ nlines' = 0
    /\ UNCHANGED <<pc, listed, keys, students, si, hist, atClone, invocations,
                   summary, abortedBy, pin, pout>>

\* the glob is exhausted: on to the next record
GlobEnds ==
    /\ pc = "locate"
    /\ si <= Len(keys)
    /\ ~inFile
    /\ si' = NextPending(students, keys, si + 1)
    /\ nfiles' = 0
    /\ UNCHANGED <<pc, listed, keys, students, inFile, nlines, hist, atClone,
                   invocations, summary, abortedBy, pin, pout>>

\* one turn of `for line in html` in get_student_url
ReadLine(line) ==
    /\ pc = "locate"
    /\ inFile
    /\ nlines < MaxLines
    /\ LET k == keys[si]
           outcome == LineOutcome(line)
       IN  CASE outcome = "github" ->
                  /\ students' = [students EXCEPT ![k] = AfterMatch(@, line.url)]
                  /\ hist' = [hist EXCEPT ![k].read = TRUE,
                                          ![k].first = IF @ = <<>> THEN line.url ELSE @]
                  /\ inFile' = FALSE
                  /\ UNCHANGED <<pc, nlines, abortedBy>>
             [] outcome = "no_url" ->
                  /\ students' = [students EXCEPT ![k] = AfterNoMatch(@)]
                  /\ hist' = [hist EXCEPT ![k].read = TRUE]
                  /\ nlines' = nlines + 1
                  /\ UNCHANGED <<pc, inFile, abortedBy>>
             [] OTHER ->
                  /\ pc' = "aborted"
                  /\ abortedBy' = outcome
                  /\ UNCHANGED <<students, hist, inFile, nlines>>
    /\ UNCHANGED <<listed, keys, si, nfiles, atClone, invocations, summary, pin, pout>>

\* the file has no more lines
EndOfFile ==
    /\ pc = "locate"
    /\ inFile
    /\ inFile' = FALSE
    /\ UNCHANGED <<pc, listed, keys, students, si, nfiles, nlines, hist, atClone,
                   invocations, summary, abortedBy, pin, pout>>

\* get_github_info returns; clone_repos starts
LocateEnds ==
    /\ pc = "locate"
    /\ si > Len(keys)
    /\ pc' = "clone"
    /\ si' = 1
    /\ atClone' = students
    /\ UNCHANGED <<listed, keys, students, inFile, nfiles, nlines, hist,
                   invocations, summary, abortedBy, pin, pout>>

\* ------------------------------------------------------- Clone Invoker
ExitCodes == {0, 1, 128}

\* command = ("git", "clone", student['ssh_url'])
CloneCommand(student) == <<<<"git">>, <<"clone">>, student.ssh_url>>

\* a variant that does not look at the exit code
CloneStatusAnyCode(returncode) == "cloned"

\* `if completed.returncode == 0`
CloneStatus(returncode) == IF returncode = 0 THEN "cloned" ELSE "problem"

Invocation(k, student, outcome, code) ==
    [key |-> k, cwd |-> student.folder, command |-> CloneCommand(student),
     outcome |-> outcome, returncode |-> code]

\* `if student['status'] != 'github': ... continue`
CloneSkips ==
    /\ pc = "clone"
    /\ si <= Len(keys)
    /\ students[keys[si]].status # "github"
    /\ si' = si + 1
    /\ UNCHANGED <<pc, listed, keys, students, inFile, nfiles, nlines, hist,
                   atClone, invocations, summary, abortedBy, pin, pout>>

\* subprocess.run returned a CompletedProcess
CloneReturns(code) ==
    /\ pc = "clone"
    /\ si <= Len(keys)
    /\ students[keys[si]].status = "github"
    /\ invocations' = Append(invocations,
                             Invocation(keys[si], students[keys[si]], "returned", code))
    /\ students' = [students EXCEPT ![keys[si]].status = CloneStatus(code)]
    /\ si' = si + 1
    /\ UNCHANGED <<pc, listed, keys, inFile, nfiles, nlines, hist, atClone,
                   summary, abortedBy, pin, pout>>

\* subprocess.run raised: git cannot be started or cwd cannot be entered
\* (FileNotFoundError, NotADirectoryError, PermissionError: all OSError).  With
\* check=False it never raises CalledProcessError, the one exception the
\* handler names, so the exception leaves clone_repos and main.
CloneRaises ==
    /\ pc = "clone"
    /\ si <= Len(keys)
    /\ students[keys[si]].status = "github"
    /\ invocations' = Append(invocations,
                             Invocation(keys[si], students[keys[si]], "raised", -1))
    /\ pc' = "aborted"
    /\ abortedBy' = "OSError"
    /\ UNCHANGED <<listed, keys, students, si, inFile, nfiles, nlines, hist,
                   atClone, summary, pin, pout>>

\* clone_repos returns; main starts the report
CloneEnds ==
    /\ pc = "clone"
    /\ si > Len(keys)
    /\ pc' = "summary"
    /\ si' = 1
    /\ UNCHANGED <<listed, keys, students, inFile, nfiles, nlines, hist, atClone,
                   invocations, summary, abortedBy, pin, pout>>

\* print(f"{k}: {student['status']}")
PrintLine ==
    /\ pc = "summary"
    /\ si <= Len(keys)
    /\ summary' = Append(summary, [key |-> keys[si], status |-> students[keys[si]].status])
    /\ si' = si + 1
    /\ UNCHANGED <<pc, listed, keys, students, inFile, nfiles, nlines, hist,
                   atClone, invocations, abortedBy, pin, pout>>

\* main returns 0
MainReturns ==
    /\ pc = "summary"
    /\ si > Len(keys)
    /\ pc' = "done"
    /\ UNCHANGED <<listed, keys, students, si, inFile, nfiles, nlines, hist,
                   atClone, invocations, summary, abortedBy, pin, pout>>

Next ==
    \/ ResolveRoot
    \/ ResolveFails
    \/ \E f \in FolderNames : ScanFolder(f)
    \/ ScanEnds
    \/ GlobYields
    \/ GlobEnds
    \/ \E line \in HtmlLines : ReadLine(line)
    \/ EndOfFile
    \/ LocateEnds
    \/ CloneSkips
    \/ \E code \in ExitCodes : CloneReturns(code)
    \/ CloneRaises
    \/ CloneEnds
    \/ PrintLine
    \/ MainReturns

Spec == Init /\ [][Next]_vars


\* ------------------------------------- get_student_url on a single line
\* The record a line is applied to: a freshly parsed submission.
FreshStudent ==
    extract_student_info(
        FolderName("101768-164537", <<"J", "a", "n">>, <<"D", "o", "e">>,
                   "Jan", 25, 2025, <<2, 0, 4>>, "PM"))

\* pieces a repository path is put together from
Chunks == {<<"p">>, <<"/">>, <<".">>, <<"g", "i", "t">>, DotGit}
Paths == {Flatten(cs) : cs \in SeqsUpTo(Chunks, MaxChunks)}
Owners == {<<>>, <<"o">>}

UrlInputs ==
    {HrefLine(UrlHead("github.com") \o o \o <<"/">> \o path) : o \in Owners, path \in Paths}
    \cup {ParaLine(UrlHead("github.com") \o o \o <<"/">> \o path) : o \in Owners, path \in Paths}

InitUrl ==
    /\ MainInit
    /\ pin \in UrlInputs
    /\ pout = [done |-> FALSE]

\* the body of `for line in html` on the line pin
ApplyLine ==
    /\ ~pout.done
    /\ pout' = [done |-> TRUE,
                outcome |-> LineOutcome(pin),
                student |-> CASE LineOutcome(pin) = "github" -> AfterMatch(FreshStudent, pin.url)
                              [] LineOutcome(pin) = "no_url" -> AfterNoMatch(FreshStudent)
                              [] OTHER -> FreshStudent]
    /\ UNCHANGED <<pc, listed, keys, students, si, inFile, nfiles, nlines, hist,
                   atClone, invocations, summary, abortedBy, pin>>

NextUrl == ApplyLine

SpecUrl == InitUrl /\ [][NextUrl]_vars

\* ------------------------------------ extract_student_info on one name
Digits == 0..9
TimeFields ==
    UNION {[1..n -> Digits] : n \in MinTimeDigits..MaxTimeDigits}
    \cup {<<4, 5>>, <<1, 2, 3, 4, 5>>}

TimeInputs ==
    {FolderName("101768-164537", <<"J", "a", "n">>, <<"D", "o", "e">>, d[1], d[2], d[3], t, mer) :
        d \in {<<"Jan", 25, 2025>>, <<"Feb", 29, 2024>>},
        t \in TimeFields, mer \in {"AM", "PM"}}

InitTime ==
    /\ MainInit
    /\ pin \in TimeInputs
    /\ pout = [done |-> FALSE]

\* extract_student_info(path) on the folder name pin
ApplyParser ==
    /\ ~pout.done
    /\ pout' = IF ~RegexMatches(pin)
               THEN [done |-> TRUE, outcome |-> "None", student |-> FreshStudent]
               ELSE IF DatetimeRaises(pin)
               THEN [done |-> TRUE, outcome |-> "ValueError", student |-> FreshStudent]
               ELSE [done |-> TRUE, outcome |-> "student",
                     student |-> extract_student_info(pin)]
    /\ UNCHANGED <<pc, listed, keys, students, si, inFile, nfiles, nlines, hist,
                   atClone, invocations, summary, abortedBy, pin>>

NextTime == ApplyParser

SpecTime == InitTime /\ [][NextTime]_vars


\* =================================================================== claims
Parsed(f) == RegexMatches(f) /\ ~DatetimeRaises(f)
KeyOfName(f) == Lower(f.first) \o Lower(f.last)
ScanIsOver == pc \in {"locate", "clone", "summary", "done"}
LocatorHasRun ==
    \/ pc \in {"clone", "summary", "done"}
    \/ pc = "aborted" /\ abortedBy = "OSError"
CloneReposIsOver ==
    \/ pc \in {"summary", "done"}
    \/ pc = "aborted" /\ abortedBy = "OSError"
InvocationsOf(k) == {i \in 1..Len(invocations) : invocations[i].key = k}
Occurrences(ks, k) == Cardinality({i \in 1..Len(ks) : ks[i] = k})

\* C1: after the scan, whatever the order of the listing, a key that two or
\* more listed folders parse to has exactly one record, and that record is the
\* folder with the latest timestamp: no listed folder of the same key is newer
\* than the one kept.
C1_LatestSurvives ==
    ScanIsOver =>
        \A i \in 1..Len(listed) :
            Parsed(listed[i]) =>
                LET k == KeyOfName(listed[i])
                IN  /\ k \in DOMAIN students
                    /\ Occurrences(keys, k) = 1
                    /\ ~DtGreater(get_datetime(listed[i]), students[k].datetime)

\* C2: a record's status only ever moves pending -> link-found, pending ->
\* no-link, link-found -> cloned, link-found -> clone-failed; no-link, cloned
\* and clone-failed are terminal.
StatusMoves ==
    {<<"folder", "github">>, <<"folder", "no_url">>,
     <<"github", "cloned">>, <<"github", "problem">>}

C2_StatusMachine ==
    [][\A k \in DOMAIN students :
          \/ students'[k].status = students[k].status
          \/ <<students[k].status, students'[k].status>> \in StatusMoves]_vars

\* C3: once the Repository Locator has run, a record for which no line of any
\* *.html file matched (no file, an empty file, or only other lines) has status
\* no-link, and no clone command is invoked for it.
C3_NoLinkStatus ==
    LocatorHasRun =>
        \A k \in DOMAIN students :
            hist[k].first = <<>> =>
                /\ students[k].status = "no_url"
                /\ InvocationsOf(k) = {}

\* C4: from the first matching line on, the record's owner, repo and clone
\* address are those of that line, and its status is never again pending or
\* no-link, whatever later lines and later *.html files hold.
C4_FirstMatchWins ==
    \A k \in DOMAIN students :
        hist[k].first # <<>> =>
            /\ students[k].userid = OwnerOf(hist[k].first)
            /\ students[k].repo = RepoOf(hist[k].first)
            /\ students[k].ssh_url = SshUrl(OwnerOf(hist[k].first), RepoOf(hist[k].first))
            /\ students[k].status \in {"github", "cloned", "problem"}

\* C5: when the clone command returns an exit code, the record ends cloned
\* (code 0) or clone-failed (any other code); an exit code never ends the run;
\* unless an invocation raised, every record that had a link is cloned in
\* turn, a step that does not raise is always possible, and the finished run
\* has printed exactly one summary line per record, in order, with its status.
C5_CloneFailureNonBlocking ==
    /\ \A i \in 1..Len(invocations) :
          invocations[i].outcome = "returned" =>
              students[invocations[i].key].status =
                  (IF invocations[i].returncode = 0 THEN "cloned" ELSE "problem")
    /\ (pc = "aborted" /\ invocations # <<>>) =>
          invocations[Len(invocations)].outcome = "raised"
    /\ pc \in {"summary", "done"} =>
          \A k \in DOMAIN atClone :
              atClone[k].status = "github" => InvocationsOf(k) # {}
    /\ pc \in {"clone", "summary"} =>
          ENABLED (\/ CloneSkips
                   \/ \E code \in ExitCodes : CloneReturns(code)
                   \/ CloneEnds
                   \/ PrintLine
                   \/ MainReturns)
    /\ pc = "done" =>
          /\ Len(summary) = Len(keys)
          /\ \A i \in 1..Len(keys) :
                /\ summary[i].key = keys[i]
                /\ summary[i].status = students[keys[i]].status

C5_Witness ==
    /\ pc = "done"
    /\ Len(invocations) >= 2
    /\ invocations[1].outcome = "returned"
    /\ invocations[1].returncode # 0
    /\ students[invocations[1].key].status = "problem"
    /\ students[invocations[2].key].status = "cloned"
    /\ Len(summary) = Len(keys)

\* C6: when invoking the clone command raises, the record's status becomes
\* clone-failed and the run goes on (it is not ended by the exception).
C6_RaiseIsRecorded ==
    \A i \in 1..Len(invocations) :
        invocations[i].outcome = "raised" =>
            /\ students[invocations[i].key].status = "problem"
            /\ pc # "aborted"

\* C7: whatever the base names of the sub-folders, the Submission Parser
\* yields a record or none: parsing a folder name never ends the run.
C7_ParserNeverFatal ==
    ~(pc = "aborted" /\ abortedBy = "ValueError")


\* n copies of ".git"
RECURSIVE Gits(_)
Gits(n) == IF n = 0 THEN <<>> ELSE <<".", "g", "i", "t">> \o Gits(n - 1)

ExampleUrl ==
    <<"https:", "/", "/", "github.com", "/", "o", "/",
      "p", ".", "g", "i", "t", ".", "g", "i", "t">>

\* C8: for a matched URL the owner is the 4th '/'-separated component, the
\* repo is the 5th with every trailing ".git" removed (the 5th component is
\* the repo followed by some number of ".git", and the repo does not itself
\* end in ".git"), and the clone address is <alias>:<owner>/<repo>.git;
\* .../o/p.git.git gives the repo p.
C8_RepoNormalized ==
    (pout.done /\ pout.outcome = "github") =>
        LET comps == Split(pin.url)
            st == pout.student
        IN  /\ Len(comps) >= 5
            /\ st.status = "github"
            /\ st.userid = comps[4]
            /\ \E n \in 0..Len(comps[5]) : comps[5] = st.repo \o Gits(n)
            /\ \/ Len(st.repo) < 4
               \/ SubSeq(st.repo, Len(st.repo) - 3, Len(st.repo)) # <<".", "g", "i", "t">>
            /\ st.ssh_url = <<"git@github-fleming", ":">> \o comps[4] \o <<"/">>
                                \o st.repo \o <<".", "g", "i", "t">>
            /\ pin.url = ExampleUrl => st.repo = <<"p">>

C8_Witness ==
    /\ pout.done
    /\ pout.outcome = "github"
    /\ pin.url = ExampleUrl
    /\ pout.student.repo = <<"p">>
    /\ pout.student.userid = <<"o">>

\* the number a 3- or 4-digit field writes
FieldValue(ds) ==
    IF Len(ds) = 3 THEN 100 * ds[1] + 10 * ds[2] + ds[3]
    ELSE 1000 * ds[1] + 100 * ds[2] + 10 * ds[3] + ds[4]

\* C9: for a 3- or 4-digit time field t with t div 100 in 1..12 and t mod 100
\* in 0..59 the parser yields a record whose timestamp has minute t mod 100,
\* 12-hour hour t div 100, and is in the afternoon exactly when the marker is
\* PM (12 AM is hour 0, 12 PM is hour 12); the date and the names are those of
\* the folder name; "... - Jan Doe - Jan 25, 2025 204 PM" is 2025-01-25 14:04.
C9_TimeDecoding ==
    (pout.done /\ Len(pin.time) \in {3, 4}) =>
        LET t == FieldValue(pin.time)
        IN  (t \div 100 \in 1..12 /\ t % 100 \in 0..59) =>
                /\ pout.outcome = "student"
                /\ pout.student.datetime.minute = t % 100
                /\ pout.student.datetime.hour \in 0..23
                /\ ((pout.student.datetime.hour + 11) % 12) + 1 = t \div 100
                /\ (pout.student.datetime.hour >= 12) <=> (pin.mer = "PM")
                /\ pout.student.datetime.year = pin.year
                /\ pout.student.datetime.day = pin.day
                /\ pout.student.datetime.month = (IF pin.mon = "Jan" THEN 1 ELSE 2)
                /\ pout.student.first = <<"J", "a", "n">>
                /\ pout.student.last = <<"D", "o", "e">>
                /\ (pin.time = <<2, 0, 4>> /\ pin.mer = "PM" /\ pin.mon = "Jan") =>
                      pout.student.datetime =
                          [year |-> 2025, month |-> 1, day |-> 25, hour |-> 14, minute |-> 4]

C9_Witness ==
    /\ pout.done
    /\ pin.time = <<2, 0, 4>>
    /\ pin.mer = "PM"
    /\ pin.mon = "Jan"
    /\ pout.outcome = "student"
    /\ pout.student.datetime.hour = 14
    /\ pout.student.datetime.minute = 4

\* C10: when clone_repos is over, every record that was link-found when it
\* started has exactly one invocation, run in the record's folder with the
\* command git clone <clone address>; every other record has none and is
\* unchanged.
C10_CloneFrame ==
    CloneReposIsOver =>
        \A k \in DOMAIN atClone :
            IF atClone[k].status = "github"
            THEN /\ Cardinality(InvocationsOf(k)) = 1
                 /\ \A i \in InvocationsOf(k) :
                       /\ invocations[i].cwd = atClone[k].folder
                       /\ invocations[i].command =
                              <<<<"git">>, <<"clone">>, atClone[k].ssh_url>>
            ELSE /\ InvocationsOf(k) = {}
                 /\ students[k] = atClone[k]


====
